---- MODULE Spec2Model ----
(***************************************************************************)
(* Model of pypred/ast.py: the predicate AST nodes, their constructors,    *)
(* the post-order semantic validation (Node.validate and the per-class     *)
(* _validate rules) and the pre-order traversal (Node.pre).                *)
(*                                                                         *)
(* A Python object is a record holding exactly the attributes that have    *)
(* been assigned on it, so hasattr(o, a) is a \in DOMAIN o.  A node        *)
(* carries "cls" (its class) beside its attributes.  A node is identified  *)
(* by its path from the root, a sequence over {"left", "right"}.           *)
(***************************************************************************)
EXTENDS Integers, Sequences, FiniteSets, TLC

(***************************************************************************)
(* Bounds of the model.                                                    *)
(***************************************************************************)
MaxNodes == 4

(***************************************************************************)
(* Python values.  t is the Python type, s the characters of a str, n the  *)
(* number of a bool, int or float (only whole floats occur in the model).  *)
(***************************************************************************)
PyStr(chars) == [t |-> "str", s |-> chars, n |-> 0]
PyInt(i) == [t |-> "int", s |-> <<>>, n |-> i]
PyFloat(x) == [t |-> "float", s |-> <<>>, n |-> x]
PyBool(b) == [t |-> "bool", s |-> <<>>, n |-> IF b THEN 1 ELSE 0]
PyNone == [t |-> "NoneType", s |-> <<>>, n |-> 0]

PyTrue == PyBool(TRUE)
PyFalse == PyBool(FALSE)

IsNumeric(v) == v.t \in {"bool", "int", "float"}

\* Python's ==, which "x in (a, b, c)" uses: bool, int and float compare by
\* number (True == 1 == 1.0), everything else by type and content.
PyEq(a, b) == IF IsNumeric(a) /\ IsNumeric(b) THEN a.n = b.n ELSE a = b

\* x in tup, for a tuple given as a sequence
PyIn(x, tup) == \E i \in 1..Len(tup) : PyEq(x, tup[i])

Digits == <<"0", "1", "2", "3", "4", "5", "6", "7", "8", "9">>

IsDigit(c) == \E d \in 1..Len(Digits) : Digits[d] = c

DigitValue(c) == (CHOOSE d \in 1..Len(Digits) : Digits[d] = c) - 1

RECURSIVE DecimalValue(_)
DecimalValue(chars) ==
  IF chars = <<>> THEN 0
  ELSE 10 * DecimalValue(SubSeq(chars, 1, Len(chars) - 1))
         + DigitValue(chars[Len(chars)])

\* float(value): [ok, val].  A str converts when it is a decimal numeral,
\* a bool, int or float always converts, None raises TypeError.
ToFloat(value) ==
  CASE value.t = "str" ->
         IF value.s # <<>> /\ \A i \in 1..Len(value.s) : IsDigit(value.s[i])
         THEN [ok |-> TRUE, val |-> PyFloat(DecimalValue(value.s))]
         ELSE [ok |-> FALSE, val |-> value]
    [] IsNumeric(value) -> [ok |-> TRUE, val |-> PyFloat(value.n)]
    [] OTHER -> [ok |-> FALSE, val |-> value]

\* re.compile(pattern): [ok, err].  It fails on a character class that is
\* opened and never closed.
ReCompile(pattern) ==
  IF \E i \in 1..Len(pattern) :
       /\ pattern[i] = "["
       /\ \A j \in (i + 1)..Len(pattern) : pattern[j] # "]"
  THEN [ok |-> FALSE, err |-> "error('unexpected end of regular expression',)"]
  ELSE [ok |-> TRUE, err |-> ""]

\* template % arg with one argument: it raises TypeError unless the
\* template holds exactly one conversion directive.
PercentFormat(template, directives, arg) ==
  IF directives = 1
  THEN [exc |-> "none", str |-> [fmt |-> template, arg |-> arg]]
  ELSE [exc |-> "TypeError", str |-> [fmt |-> template, arg |-> arg]]

(***************************************************************************)
(* Objects and dicts.                                                      *)
(***************************************************************************)
hasattr(o, a) == a \in DOMAIN o

setattr(o, a, v) == [k \in DOMAIN o \cup {a} |-> IF k = a THEN v ELSE o[k]]

isinstance(o, classes) == o.cls \in classes

IsNode(x) == hasattr(x, "cls")

EmptyDict == [k \in {} |-> {}]

setdefault(d, k, default) == IF k \in DOMAIN d THEN d ELSE setattr(d, k, default)

(***************************************************************************)
(* Constructors.  None of them calls Node.__init__, so none assigns valid. *)
(***************************************************************************)
LogicalOperator(op, left, right) ==
  [cls |-> "LogicalOperator", type |-> op, left |-> left, right |-> right]

NegateOperator(expr) == [cls |-> "NegateOperator", left |-> expr]

CompareOperator(comparison, left, right) ==
  [cls |-> "CompareOperator", type |-> comparison, left |-> left, right |-> right]

ContainsOperator(left, right) ==
  [cls |-> "ContainsOperator", left |-> left, right |-> right]

MatchOperator(left, right) ==
  [cls |-> "MatchOperator", left |-> left, right |-> right]

Regex(value) ==
  [cls |-> "Regex", value |-> IF IsNode(value) THEN value.value ELSE value]

Literal(value) == [cls |-> "Literal", value |-> value]

Number(value) == [cls |-> "Number", value |-> ToFloat(value).val]

Constant(value) == [cls |-> "Constant", value |-> value]

Undefined == [cls |-> "Undefined"]

Empty == [cls |-> "Empty"]

\* Node.__repr__
Repr(self) ==
  LET r0 == [name |-> self.cls]
      r1 == IF hasattr(self, "type") THEN setattr(r0, "t", self.type) ELSE r0
      r2 == IF hasattr(self, "value") THEN setattr(r1, "v", self.value) ELSE r1
      r3 == IF hasattr(self, "left") THEN setattr(r2, "l", self.left.cls) ELSE r2
  IN IF hasattr(self, "right") THEN setattr(r3, "r", self.right.cls) ELSE r3

(***************************************************************************)
(* The per-class rules.  Each returns [exc, ret, info, self]: the          *)
(* exception it raised ("none" when it returned), the value it returned,   *)
(* the info dict and the node as it left them.                             *)
(***************************************************************************)
Return(self, info, ret) == [exc |-> "none", ret |-> ret, info |-> info, self |-> self]

Raise(self, info, exc) == [exc |-> exc, ret |-> FALSE, info |-> info, self |-> self]

\* errs = info.setdefault("errors", []); errs.append(template % arg); return False
ReportError(self, info, template, directives, arg) ==
  LET info1 == setdefault(info, "errors", <<>>)
      msg == PercentFormat(template, directives, arg)
  IN IF msg.exc # "none"
     THEN Raise(self, info1, msg.exc)
     ELSE Return(self, [info1 EXCEPT !["errors"] = Append(@, msg.str)], FALSE)

\* Mutant: the default rule falls off its end and reports the node invalid.
Node_validate_falls_through(self, info) == Return(self, info, FALSE)

Node_validate(self, info) == Return(self, info, TRUE)

LogicalOps == <<"and", "or">>

LogicalOperator_validate(self, info) ==
  IF ~(\E i \in 1..Len(LogicalOps) : LogicalOps[i] = self.type)
  THEN ReportError(self, info, "Unknown logical operator %s", 1, [type |-> self.type])
  ELSE Return(self, info, TRUE)

CompareOps == <<">=", ">", "<", "<=", "=", "!=", "is">>

CompareOperator_validate(self, info) ==
  IF ~(\E i \in 1..Len(CompareOps) : CompareOps[i] = self.type)
  THEN ReportError(self, info, "Unknown compare operator %s", 1, [type |-> self.type])
  ELSE Return(self, info, TRUE)

ContainsOperator_validate(self, info) ==
  IF ~isinstance(self.right, {"Number", "Literal", "Constant"})
  THEN ReportError(self, info,
                   "Contains operator must take a literal or constant! Got: %s", 1,
                   [repr |-> Repr(self.right)])
  ELSE Return(self, info, TRUE)

MatchOperator_validate(self, info) ==
  IF ~isinstance(self.right, {"Regex"})
  THEN ReportError(self, info, "Match operator must take a regex! Got: ", 0,
                   [repr |-> Repr(self.right)])
  ELSE Return(self, info, TRUE)

Regex_validate(self, info) ==
  IF self.value.t # "str"
  THEN ReportError(self, info, "Regex must be a string! Got: ", 0,
                   [value |-> self.value])
  ELSE LET c == ReCompile(self.value.s)
       IN IF c.ok
          THEN Return(setattr(self, "re", self.value.s), info, TRUE)
          ELSE LET info1 == setdefault(info, "errors", <<>>)
                   info2 == [info1 EXCEPT !["errors"] =
                               Append(@, [fmt |-> "Regex compilation failed",
                                          arg |-> [none |-> 0]])]
                   info3 == setdefault(info2, "regex", EmptyDict)
               IN Return(self,
                         [info3 EXCEPT !["regex"] = setattr(@, self.value.s, c.err)],
                         FALSE)

Number_validate(self, info) ==
  IF self.value.t # "float"
  THEN ReportError(self, info, "Failed to convert number to float! Got: %s", 1,
                   [value |-> self.value])
  ELSE Return(self, info, TRUE)

Constant_validate(self, info) ==
  IF ~PyIn(self.value, <<PyTrue, PyFalse, PyNone>>)
  THEN ReportError(self, info, "Invalid Constant! Got: %s", 1, [value |-> self.value])
  ELSE Return(self, info, TRUE)

\* self._validate(info): the rule of self's class, Node's where the class
\* defines none
OwnValidate(self, info) ==
  CASE self.cls = "LogicalOperator" -> LogicalOperator_validate(self, info)
    [] self.cls = "CompareOperator" -> CompareOperator_validate(self, info)
    [] self.cls = "ContainsOperator" -> ContainsOperator_validate(self, info)
    [] self.cls = "MatchOperator" -> MatchOperator_validate(self, info)
    [] self.cls = "Regex" -> Regex_validate(self, info)
    [] self.cls = "Number" -> Number_validate(self, info)
    [] self.cls = "Constant" -> Constant_validate(self, info)
    [] OTHER -> Node_validate(self, info)

(***************************************************************************)
(* Node.validate.  path is the identity of self.  rules records, for each  *)
(* call of a node's own rule in turn: the node, whether each child had its *)
(* valid attribute by then, whether the rule raised, and the length of     *)
(* info["errors"] when it was left.  The result is [exc, self, info,       *)
(* rules]; attributes assigned before an exception stay assigned.          *)
(***************************************************************************)
ErrorCount(info) == IF "errors" \in DOMAIN info THEN Len(info["errors"]) ELSE 0

ChildrenHaveValid(self) ==
  /\ hasattr(self, "left") => hasattr(self.left, "valid")
  /\ hasattr(self, "right") => hasattr(self.right, "valid")

RuleCall(self, path, v) ==
  [node |-> path, kids |-> ChildrenHaveValid(self), raised |-> v.exc # "none",
   nerrs |-> ErrorCount(v.info)]

ChildrenAreValid(self) ==
  /\ hasattr(self, "left") => self.left.valid
  /\ hasattr(self, "right") => self.right.valid

\* Mutant: valid is the own rule's result and-ed with the children's valid.
RECURSIVE validate_conj(_, _, _, _)
validate_conj(self, path, info, rules) ==
  LET l == validate_conj(self.left, Append(path, "left"), info, rules)
      hasL == hasattr(self, "left")
      self1 == IF hasL THEN [self EXCEPT !.left = l.self] ELSE self
      info1 == IF hasL THEN l.info ELSE info
      rules1 == IF hasL THEN l.rules ELSE rules
  IN IF hasL /\ l.exc # "none"
     THEN [exc |-> l.exc, self |-> self1, info |-> info1, rules |-> rules1]
     ELSE
       LET r == validate_conj(self1.right, Append(path, "right"), info1, rules1)
           hasR == hasattr(self1, "right")
           self2 == IF hasR THEN [self1 EXCEPT !.right = r.self] ELSE self1
           info2 == IF hasR THEN r.info ELSE info1
           rules2 == IF hasR THEN r.rules ELSE rules1
       IN IF hasR /\ r.exc # "none"
          THEN [exc |-> r.exc, self |-> self2, info |-> info2, rules |-> rules2]
          ELSE
            LET v == OwnValidate(self2, info2)
                rules3 == Append(rules2, RuleCall(self2, path, v))
            IN IF v.exc # "none"
               THEN [exc |-> v.exc, self |-> v.self, info |-> v.info, rules |-> rules3]
               ELSE [exc |-> "none",
                     self |-> setattr(v.self, "valid", v.ret /\ ChildrenAreValid(v.self)),
                     info |-> v.info, rules |-> rules3]

\* Mutant: a node that already has valid is not validated again.
RECURSIVE validate_cached(_, _, _, _)
validate_cached(self, path, info, rules) ==
  IF hasattr(self, "valid")
  THEN [exc |-> "none", self |-> self, info |-> info, rules |-> rules]
  ELSE
    LET l == validate_cached(self.left, Append(path, "left"), info, rules)
        hasL == hasattr(self, "left")
        self1 == IF hasL THEN [self EXCEPT !.left = l.self] ELSE self
        info1 == IF hasL THEN l.info ELSE info
        rules1 == IF hasL THEN l.rules ELSE rules
    IN IF hasL /\ l.exc # "none"
       THEN [exc |-> l.exc, self |-> self1, info |-> info1, rules |-> rules1]
       ELSE
         LET r == validate_cached(self1.right, Append(path, "right"), info1, rules1)
             hasR == hasattr(self1, "right")
             self2 == IF hasR THEN [self1 EXCEPT !.right = r.self] ELSE self1
             info2 == IF hasR THEN r.info ELSE info1
             rules2 == IF hasR THEN r.rules ELSE rules1
         IN IF hasR /\ r.exc # "none"
            THEN [exc |-> r.exc, self |-> self2, info |-> info2, rules |-> rules2]
            ELSE
              LET v == OwnValidate(self2, info2)
                  rules3 == Append(rules2, RuleCall(self2, path, v))
              IN IF v.exc # "none"
                 THEN [exc |-> v.exc, self |-> v.self, info |-> v.info, rules |-> rules3]
                 ELSE [exc |-> "none", self |-> setattr(v.self, "valid", v.ret),
                       info |-> v.info, rules |-> rules3]

\* Mutant: the node's own rule runs before its children are validated.
RECURSIVE validate_rule_first(_, _, _, _)
validate_rule_first(self, path, info, rules) ==
  LET v == OwnValidate(self, info)
      rules0 == Append(rules, RuleCall(self, path, v))
      self0 == setattr(v.self, "valid", v.ret)
  IN IF v.exc # "none"
     THEN [exc |-> v.exc, self |-> v.self, info |-> v.info, rules |-> rules0]
     ELSE
       LET l == validate_rule_first(self0.left, Append(path, "left"), v.info, rules0)
           hasL == hasattr(self0, "left")
           self1 == IF hasL THEN [self0 EXCEPT !.left = l.self] ELSE self0
           info1 == IF hasL THEN l.info ELSE v.info
           rules1 == IF hasL THEN l.rules ELSE rules0
       IN IF hasL /\ l.exc # "none"
          THEN [exc |-> l.exc, self |-> self1, info |-> info1, rules |-> rules1]
          ELSE
            LET r == validate_rule_first(self1.right, Append(path, "right"), info1, rules1)
                hasR == hasattr(self1, "right")
            IN IF hasR
               THEN [exc |-> r.exc, self |-> [self1 EXCEPT !.right = r.self],
                     info |-> r.info, rules |-> r.rules]
               ELSE [exc |-> "none", self |-> self1, info |-> info1, rules |-> rules1]

RECURSIVE validate(_, _, _, _)
validate(self, path, info, rules) ==
  LET l == validate(self.left, Append(path, "left"), info, rules)
      hasL == hasattr(self, "left")
      self1 == IF hasL THEN [self EXCEPT !.left = l.self] ELSE self
      info1 == IF hasL THEN l.info ELSE info
      rules1 == IF hasL THEN l.rules ELSE rules
  IN IF hasL /\ l.exc # "none"
     THEN [exc |-> l.exc, self |-> self1, info |-> info1, rules |-> rules1]
     ELSE
       LET r == validate(self1.right, Append(path, "right"), info1, rules1)
           hasR == hasattr(self1, "right")
           self2 == IF hasR THEN [self1 EXCEPT !.right = r.self] ELSE self1
           info2 == IF hasR THEN r.info ELSE info1
           rules2 == IF hasR THEN r.rules ELSE rules1
       IN IF hasR /\ r.exc # "none"
          THEN [exc |-> r.exc, self |-> self2, info |-> info2, rules |-> rules2]
          ELSE
            LET v == OwnValidate(self2, info2)
                rules3 == Append(rules2, RuleCall(self2, path, v))
            IN IF v.exc # "none"
               THEN [exc |-> v.exc, self |-> v.self, info |-> v.info, rules |-> rules3]
               ELSE [exc |-> "none", self |-> setattr(v.self, "valid", v.ret),
                     info |-> v.info, rules |-> rules3]

(***************************************************************************)
(* Node.pre with a visitor that records the node it is called on: the      *)
(* result is the sequence of visited nodes.                                *)
(***************************************************************************)
\* Mutant: the right child is traversed before the left child.
RECURSIVE pre_right_first(_, _, _)
pre_right_first(self, path, visited) ==
  LET v0 == Append(visited, path)
      v1 == IF hasattr(self, "right")
            THEN pre_right_first(self.right, Append(path, "right"), v0) ELSE v0
  IN IF hasattr(self, "left")
     THEN pre_right_first(self.left, Append(path, "left"), v1) ELSE v1

RECURSIVE pre(_, _, _)
pre(self, path, visited) ==
  LET v0 == Append(visited, path)
      v1 == IF hasattr(self, "left")
            THEN pre(self.left, Append(path, "left"), v0) ELSE v0
  IN IF hasattr(self, "right")
     THEN pre(self.right, Append(path, "right"), v1) ELSE v1

(***************************************************************************)
(* The trees the parser may build: every tree of at most MaxNodes nodes    *)
(* over the constructor arguments below.                                   *)
(***************************************************************************)
RegexInputs == {Literal(PyStr(<<"a">>)), PyStr(<<"[">>), PyInt(5)}

LiteralInputs == {PyStr(<<"x">>)}

NumberInputs == {PyStr(<<"5">>), PyStr(<<"a", "b", "c">>)}

ConstantInputs == {PyTrue, PyInt(1), PyStr(<<"m", "a", "y", "b", "e">>)}

LogicalInputs == {"and", "xor"}

CompareInputs == {">", "~="}

Leaves ==
  {Regex(v) : v \in RegexInputs} \cup {Literal(v) : v \in LiteralInputs}
    \cup {Number(v) : v \in NumberInputs} \cup {Constant(v) : v \in ConstantInputs}
    \cup {Undefined, Empty}

\* The binary constructor calls: the class and, where it takes one, the type
BinaryInputs ==
  {<<"LogicalOperator", op>> : op \in LogicalInputs}
    \cup {<<"CompareOperator", op>> : op \in CompareInputs}
    \cup {<<"ContainsOperator", "">>, <<"MatchOperator", "">>}

Binary(call, l, r) ==
  CASE call[1] = "LogicalOperator" -> LogicalOperator(call[2], l, r)
    [] call[1] = "CompareOperator" -> CompareOperator(call[2], l, r)
    [] call[1] = "ContainsOperator" -> ContainsOperator(l, r)
    [] call[1] = "MatchOperator" -> MatchOperator(l, r)

\* The trees of k nodes whose root is binary and whose left subtree has i
\* nodes, given bySize[j], the trees of j nodes, for j < k
BinaryTrees(k, i, bySize) ==
  {Binary(call, l, r) : call \in BinaryInputs, l \in bySize[i], r \in bySize[k - 1 - i]}

\* The trees of k nodes
TreesOfSize(k, bySize) ==
  IF k = 1 THEN Leaves
  ELSE {NegateOperator(e) : e \in bySize[k - 1]}
         \cup UNION {BinaryTrees(k, i, bySize) : i \in 1..(k - 2)}

RECURSIVE TreesBySize(_)
TreesBySize(n) ==
  IF n = 0 THEN <<>>
  ELSE LET bySize == TreesBySize(n - 1)
       IN Append(bySize, TreesOfSize(n, bySize))

\* The subtrees a root of a tree of at most MaxNodes nodes may have
Subtrees == TreesBySize(MaxNodes - 1)

\* t is a tree of k nodes
IsTreeOfSize(t, k) ==
  \/ k = 1 /\ t \in Leaves
  \/ k > 1 /\ \E e \in Subtrees[k - 1] : t = NegateOperator(e)
  \/ \E i \in 1..(k - 2) :
       \E call \in BinaryInputs, l \in Subtrees[i], r \in Subtrees[k - 1 - i] :
         t = Binary(call, l, r)

\* The info arguments a caller passes, <<>> standing for None and <<d>> for
\* the dict d: none, or an empty dict.
InfoArgs == {<<>>, <<EmptyDict>>}

(***************************************************************************)
(* State.                                                                  *)
(***************************************************************************)
VARIABLES
  tree,     \* the root node, with every attribute assigned so far
  info,     \* the info dict of the last validate call
  exc,      \* the exception the last validate call raised, or "none"
  ret,      \* <<value>> returned by the last validate call, <<>> if none
  rules,    \* the own-rule calls of the last validate call, in order
  visited,  \* the nodes the last pre call visited, in order
  again     \* whether the last validate call was on a tree validated before

vars == <<tree, info, exc, ret, rules, visited, again>>

Init ==
  /\ \E k \in 1..MaxNodes : IsTreeOfSize(tree, k)
  /\ info = EmptyDict
  /\ exc = "none"
  /\ ret = <<>>
  /\ rules = <<>>
  /\ visited = <<>>
  /\ again = FALSE

\* root.validate(info): the body has no return statement, so a call that
\* completes returns None.
Validate ==
  /\ \E arg \in InfoArgs :
       LET info0 == IF arg = <<>> THEN EmptyDict ELSE arg[1]
           res == validate(tree, <<>>, info0, <<>>)
       IN /\ tree' = res.self
          /\ info' = res.info
          /\ exc' = res.exc
          /\ ret' = IF res.exc = "none" THEN <<PyNone>> ELSE <<>>
          /\ rules' = res.rules
  /\ again' = (rules # <<>>)
  /\ UNCHANGED visited

\* root.pre(func)
Pre ==
  /\ visited' = pre(tree, <<>>, <<>>)
  /\ UNCHANGED <<tree, info, exc, ret, rules, again>>

Next == Validate \/ Pre

Spec == Init /\ [][Next]_vars

(***************************************************************************)
(* Vocabulary of the properties.                                           *)
(***************************************************************************)
RECURSIVE PathsOf(_, _)
PathsOf(self, path) ==
  {path}
    \cup (IF hasattr(self, "left") THEN PathsOf(self.left, Append(path, "left")) ELSE {})
    \cup (IF hasattr(self, "right") THEN PathsOf(self.right, Append(path, "right")) ELSE {})

Paths == PathsOf(tree, <<>>)

RECURSIVE NodeAt(_, _)
NodeAt(self, path) ==
  IF path = <<>> THEN self
  ELSE NodeAt(IF Head(path) = "left" THEN self.left ELSE self.right, Tail(path))

Node(p) == NodeAt(tree, p)

IsPrefix(p, q) == Len(p) <= Len(q) /\ SubSeq(q, 1, Len(p)) = p

IsAncestor(p, q) == IsPrefix(p, q) /\ p # q

\* p lies in the left subtree and q in the right subtree of one node
LeftOfRight(p, q) ==
  \E k \in 1..Len(p) :
    /\ k <= Len(q)
    /\ SubSeq(p, 1, k - 1) = SubSeq(q, 1, k - 1)
    /\ p[k] = "left"
    /\ q[k] = "right"

\* a validate call has been made on the root (every call runs some rule)
Validated == rules # <<>>

Completed == Validated /\ exc = "none"

\* The rule a node must satisfy, as the node table states it
SatisfiesRule(n) ==
  CASE n.cls = "LogicalOperator" -> n.type \in {"and", "or"}
    [] n.cls = "CompareOperator" -> n.type \in {">=", ">", "<", "<=", "=", "!=", "is"}
    [] n.cls = "ContainsOperator" -> n.right.cls \in {"Number", "Literal", "Constant"}
    [] n.cls = "MatchOperator" -> n.right.cls = "Regex"
    [] n.cls = "Regex" -> n.value.t = "str" /\ ReCompile(n.value.s).ok
    [] n.cls = "Number" -> n.value.t = "float"
    [] n.cls = "Constant" -> n.value \in {PyTrue, PyFalse, PyNone}
    [] OTHER -> TRUE

\* What the node's own rule returns when run on the node alone
OwnRule(n) == OwnValidate(n, EmptyDict).ret

RuleRaises(n) == OwnValidate(n, EmptyDict).exc # "none"

\* n is invalid by its own rule: the rule reports an error, or raises
BreaksRule(n) == RuleRaises(n) \/ ~OwnRule(n)

\* n's own rule runs to its end and reports n invalid
ReportsInvalid(n) == ~RuleRaises(n) /\ ~OwnRule(n)

\* The errors appended by the i-th rule call of the last validate call
ErrorsAddedBy(i) == rules[i].nerrs - (IF i = 1 THEN 0 ELSE rules[i - 1].nerrs)

\* The calls of p's own rule in the last validate call
CallsOf(p) == {i \in 1..Len(rules) : rules[i].node = p}

\* The node whose rule appended the k-th error
ErrorOwner(k) ==
  rules[CHOOSE i \in 1..Len(rules) :
          /\ rules[i].nerrs >= k
          /\ \A j \in 1..(i - 1) : rules[j].nerrs < k].node

(***************************************************************************)
(* Properties.                                                             *)
(***************************************************************************)

\* C1: validate on the root never raises, whatever the tree, and every node
\* that breaks its rule has its error in info["errors"].
C1_ValidateIsTotal ==
  Validated =>
    /\ exc = "none"
    /\ ErrorCount(info) = Cardinality({p \in Paths : BreaksRule(Node(p))})

AllSatisfyRule == \A p \in Paths : SatisfiesRule(Node(p))

AllValid == \A p \in Paths : hasattr(Node(p), "valid") /\ Node(p).valid = TRUE

\* C3 as stated: on a tree whose every node satisfies its rule, validate
\* with an empty info leaves info["errors"] present and empty, and every
\* node valid.
C3_ErrorsPresentAndEmpty ==
  (Validated /\ AllSatisfyRule) =>
    /\ "errors" \in DOMAIN info
    /\ info["errors"] = <<>>
    /\ AllValid

\* C3 amended: on such a tree validate with an empty info completes, leaves
\* info empty, with no "errors" entry at all, and every node valid.
C3_InfoStaysEmpty ==
  (Validated /\ AllSatisfyRule) =>
    /\ exc = "none"
    /\ info = EmptyDict
    /\ AllValid

C3_Witness ==
  /\ Validated
  /\ AllSatisfyRule
  /\ tree.cls = "MatchOperator"
  /\ tree.left.cls = "NegateOperator"

\* C4: from construction until validate first runs, every node has valid
\* and it is false.
C4_ValidFalseUntilValidated ==
  ~Validated =>
    \A p \in Paths : hasattr(Node(p), "valid") /\ Node(p).valid = FALSE

\* C5: in one validate call on the root every node has its own rule run
\* exactly once, whatever other nodes are invalid, and the error of every
\* node its rule reports invalid is in info["errors"].
C5_NoShortCircuit ==
  Validated =>
    \A p \in Paths :
      /\ Cardinality(CallsOf(p)) = 1
      /\ ReportsInvalid(Node(p)) => \A i \in CallsOf(p) : ErrorsAddedBy(i) = 1

\* C6: a Constant is valid exactly when its value is one of True, False and
\* None themselves.
C6_ConstantExact ==
  Completed =>
    \A p \in Paths :
      Node(p).cls = "Constant" =>
        (Node(p).valid <=> Node(p).value \in {PyTrue, PyFalse, PyNone})

\* C7: validation is post-order.  When a node's rule runs, every node below
\* it has had its rule run and both children have valid; the left subtree's
\* rules run before the right subtree's; and in info["errors"] a
\* descendant's error precedes its ancestor's, a left subtree's error
\* precedes a right subtree's.
C7_PostOrder ==
  Validated =>
    /\ \A p \in Paths :
         \A i \in 1..Len(rules) :
           /\ rules[i].kids
           /\ IsAncestor(rules[i].node, p) => \E j \in 1..(i - 1) : rules[j].node = p
    /\ \A i, j \in 1..Len(rules) :
         LeftOfRight(rules[i].node, rules[j].node) => i < j
    /\ \A k1, k2 \in 1..ErrorCount(info) :
         /\ IsAncestor(ErrorOwner(k2), ErrorOwner(k1)) => k1 < k2
         /\ LeftOfRight(ErrorOwner(k1), ErrorOwner(k2)) => k1 < k2

C7_Witness ==
  /\ Completed
  /\ hasattr(tree, "right")
  /\ hasattr(tree.left, "left")
  /\ ErrorCount(info) = 3
  /\ ErrorOwner(1) = <<"left", "left">>
  /\ ErrorOwner(2) = <<"right">>
  /\ ErrorOwner(3) = <<>>

\* C8: pre visits every node exactly once, a node before every node below
\* it, and the left subtree before the right subtree.
C8_PreOrder ==
  visited # <<>> =>
    /\ \A p \in Paths : Cardinality({i \in 1..Len(visited) : visited[i] = p}) = 1
    /\ Len(visited) = Cardinality(Paths)
    /\ \A i, j \in 1..Len(visited) :
         /\ IsAncestor(visited[i], visited[j]) => i < j
         /\ LeftOfRight(visited[i], visited[j]) => i < j

C8_Witness ==
  /\ Len(visited) = 4
  /\ hasattr(tree, "right")
  /\ hasattr(tree.left, "left")
  /\ visited[2] = <<"left">>
  /\ visited[4] = <<"right">>

ValidOf(t) ==
  [p \in PathsOf(t, <<>>) |->
     IF hasattr(NodeAt(t, p), "valid")
     THEN IF NodeAt(t, p).valid THEN "true" ELSE "false"
     ELSE "unset"]

ErrorsOf(d) == IF "errors" \in DOMAIN d THEN <<d["errors"]>> ELSE <<>>

\* C9: validating a tree again, with a fresh empty info, gives the same
\* error list and the same valid on every node as the call before.
C9_Idempotent ==
  [][Validated => (ErrorsOf(info') = ErrorsOf(info) /\ ValidOf(tree') = ValidOf(tree))]_vars

C9_Witness ==
  /\ again
  /\ ErrorCount(info) >= 2
  /\ \E p \in Paths : hasattr(Node(p), "valid") /\ Node(p).valid = FALSE

\* C10: after validate returns, valid on every node is what the node's own
\* rule gives, whatever its children are: a NegateOperator, and a
\* LogicalOperator of type "and" or "or", is valid even over an invalid
\* child; and whenever some node is invalid info["errors"] is not empty.
C10_OwnRuleOnly ==
  Completed =>
    /\ \A p \in Paths :
         /\ Node(p).valid = OwnRule(Node(p))
         /\ Node(p).cls = "NegateOperator" => Node(p).valid
         /\ (Node(p).cls = "LogicalOperator" /\ Node(p).type \in {"and", "or"}) =>
              Node(p).valid
    /\ (\E p \in Paths : ~Node(p).valid) => ErrorCount(info) > 0

C10_Witness ==
  /\ Completed
  /\ tree.cls = "LogicalOperator"
  /\ tree.valid
  /\ ~tree.left.valid
  /\ ErrorCount(info) > 0

====
